---- MODULE Spec2Model ----
(***************************************************************************)
(* A model of find_pyspark_api_usage.py: the PySparkUsageAnalyzer, its     *)
(* module disambiguation (_determine_module), path filter                  *)
(* (_should_ignore_path), context redaction (_get_context) and the         *)
(* thread-pool driver analyze_directory.                                   *)
(*                                                                         *)
(* Python strings are TLA+ strings; a Python set is a TLA+ set, and the    *)
(* order in which Python iterates it, or the element set.pop() removes,    *)
(* is left open (any order, any element).  A source file is modelled by    *)
(* what ast.parse makes of it: either it does not parse (Malformed) or it  *)
(* yields its call sites in ast.walk order, each with its callee name;     *)
(* the i-th call site stands on line i.                                    *)
(***************************************************************************)
EXTENDS Integers, Sequences, FiniteSets, TLC

\* ------------------------------------------------------------------------
\* Bounds of the model
\* ------------------------------------------------------------------------
MaxWorkers == 2     \* worker threads of the pool (max_workers)
MaxCalls == 2       \* call sites in one source file

\* ------------------------------------------------------------------------
\* Strings
\* ------------------------------------------------------------------------
\* Python's `sub in s` on strings
Contains(sub, s) ==
    \E i \in 1..(Len(s) - Len(sub) + 1) : SubSeq(s, i, i + Len(sub) - 1) = sub

\* ------------------------------------------------------------------------
\* Inputs: the functions file and the project directory
\* ------------------------------------------------------------------------
\* (name, module) pairs the functions file may hold
PairUniverse ==
    { <<"foo", "m.x">>, <<"foo", "m.y">>,
      <<"select", "pkg.sql.functions">>, <<"select", "pkg.other">> }

\* callee names that occur in the project's files
CallNames == {"foo", "select"}

\* paths directory.rglob("*.py") may find, in the order it lists them
PathUniverse == <<"a.py", "b.py", "test_c.py">>

\* a file whose text open/read/ast.parse rejects
Malformed == [parses |-> FALSE, calls |-> <<>>]
\* the value of `report` before line 226 assigns it
NoReport == [built |-> FALSE]

RECURSIVE SeqsUpTo(_, _)
SeqsUpTo(S, n) ==
    IF n = 0 THEN {<<>>}
    ELSE LET P == SeqsUpTo(S, n - 1)
         IN  P \cup {Append(s, x) : s \in {q \in P : Len(q) = n - 1}, x \in S}

\* what a file can hold: text that does not parse, or its call sites
Contents ==
    {Malformed} \cup {[parses |-> TRUE, calls |-> c] : c \in SeqsUpTo(CallNames, MaxCalls)}

\* the discovered files: a non-empty sublist of PathUniverse of at most two
Listings ==
    LET D == DOMAIN PathUniverse IN
    {<<PathUniverse[i]>> : i \in D} \cup
    {<<PathUniverse[p[1]], PathUniverse[p[2]]>> : p \in {q \in D \X D : q[1] < q[2]}}

Range(s) == {s[i] : i \in DOMAIN s}

\* ------------------------------------------------------------------------
\* PySparkUsageAnalyzer
\* ------------------------------------------------------------------------
\* __init__: self.function_modules, name -> set of modules
BuildFunctionModules(pyspark_functions) ==
    [name \in {p[1] : p \in pyspark_functions} |->
        {p[2] : p \in {q \in pyspark_functions : q[1] = name}}]

\* the marker set with "test_" forgotten
ignored_paths_NoTestPrefix == {".venv", "site-packages", "__pycache__", "tests", "venv"}

ignored_paths == {".venv", "site-packages", "__pycache__", "tests", "test_", "venv"}

_should_ignore_path(file_path) ==
    \E pattern \in ignored_paths : Contains(pattern, file_path)

\* _determine_module, lines 177-183: the modules the sql branch may return
\* from the candidates `available` (empty: the branch is not taken)
SqlModules(available) == {m \in available : Contains("sql", m)}

Prefixes == <<"sql.functions", "sql.dataframe", "sql.column">>

Specific(sql_modules, prefix) == {m \in sql_modules : Contains(prefix, m)}

\* the sql branch without its preference list: any sql module
SqlChoice_NoPreference(sql_modules) == sql_modules

SqlChoice(sql_modules) ==
    IF Specific(sql_modules, Prefixes[1]) # {} THEN Specific(sql_modules, Prefixes[1])
    ELSE IF Specific(sql_modules, Prefixes[2]) # {} THEN Specific(sql_modules, Prefixes[2])
    ELSE IF Specific(sql_modules, Prefixes[3]) # {} THEN Specific(sql_modules, Prefixes[3])
    ELSE sql_modules

FunctionMatch(name, module, file_path, line_number) ==
    [name |-> name, module |-> module, file_path |-> file_path,
     line_number |-> line_number]

\* ------------------------------------------------------------------------
\* State
\* ------------------------------------------------------------------------
VARIABLES
    catalog,            \* function_modules as __init__ built it (never assigned again)
    function_modules,   \* analyzer.function_modules: name -> set of modules
    python_files,       \* the discovered files
    content,            \* path -> whether the file parses, and its call sites
    submitted,          \* number of files handed to executor.submit
    queue,              \* the executor's work queue
    future,             \* path -> "new" | "pending" | "running" | "done"
    result,             \* path -> what analyze_file returned
    worker,             \* worker thread -> its position in analyze_file
    opened,             \* paths analyze_file has opened
    log,                \* <<path, error>> logged by analyze_file's except
    yielded,            \* futures as_completed has handed out
    matches,            \* analyze_directory's matches
    ignored_files,      \* analyze_directory's ignored_files
    report,             \* the report dict, NoReport before it is built
    redactor            \* one call of _get_context: its arguments and what it returned

vars == <<catalog, function_modules, python_files, content, submitted, queue,
          future, result, worker, opened, log, yielded, matches, ignored_files,
          report, redactor>>

\* _get_context has not been called
NoCall == [content |-> "", line_number |-> 0, returned |-> <<>>]

Workers == 1..MaxWorkers
Files == Range(python_files)

Idle == [pc |-> "idle", file |-> "", i |-> 0, file_matches |-> <<>>, used |-> 0]

\* the state once analyze_directory has built the analyzer from
\* pyspark_functions and listed the files (lines 202-207)
Setup(pyspark_functions, files, contents) ==
    /\ catalog = BuildFunctionModules(pyspark_functions)
    /\ function_modules = BuildFunctionModules(pyspark_functions)
    /\ python_files = files
    /\ content = contents
    /\ submitted = 0
    /\ queue = <<>>
    /\ future = [f \in Range(files) |-> "new"]
    /\ result = [f \in Range(files) |-> <<>>]
    /\ worker = [w \in Workers |-> Idle]
    /\ opened = {}
    /\ log = {}
    /\ yielded = {}
    /\ matches = <<>>
    /\ ignored_files = <<>>
    /\ report = NoReport

Init ==
    /\ \E pyspark_functions \in SUBSET PairUniverse, files \in Listings :
          \E contents \in [Range(files) -> Contents] :
             Setup(pyspark_functions, files, contents)
    /\ redactor = NoCall

\* ------------------------------------------------------------------------
\* analyze_file, run by a worker thread
\* ------------------------------------------------------------------------
\* the task returns `value`: the future completes and the thread is free
Return(w, value) ==
    /\ result' = [result EXCEPT ![worker[w].file] = value]
    /\ future' = [future EXCEPT ![worker[w].file] = "done"]
    /\ worker' = [worker EXCEPT ![w] = Idle]

\* analyze_file without its except clause: the exception ends the task and
\* stays in the future, for future.result() to raise
Except_Propagates(w, e) ==
    /\ log' = log
    /\ result' = result
    /\ future' = [future EXCEPT ![worker[w].file] = "raised"]
    /\ worker' = [worker EXCEPT ![w] = Idle]

\* lines 155-157: the exception is logged and the file yields []
Except(w, e) ==
    /\ log' = log \cup {<<worker[w].file, e>>}
    /\ Return(w, <<>>)

\* a pool thread takes the next work item.  The idle threads are
\* interchangeable (an idle thread holds no state), so the one with the
\* lowest number stands for whichever takes it.
Take(w) ==
    /\ worker[w].pc = "idle"
    /\ \A v \in Workers : v < w => worker[v].pc # "idle"
    /\ queue # <<>>
    /\ worker' = [worker EXCEPT ![w] = [Idle EXCEPT !.pc = "start", !.file = Head(queue)]]
    /\ queue' = Tail(queue)
    /\ future' = [future EXCEPT ![Head(queue)] = "running"]
    /\ UNCHANGED <<catalog, function_modules, python_files, content, submitted,
                   result, opened, log, yielded, matches, ignored_files, report, redactor>>

\* lines 127-134: the path filter, then open, read and parse
Start(w) ==
    /\ worker[w].pc = "start"
    /\ LET f == worker[w].file IN
       IF _should_ignore_path(f)
       THEN /\ Return(w, <<>>)
            /\ UNCHANGED <<opened, log>>
       ELSE /\ opened' = opened \cup {f}
            /\ IF ~content[f].parses
               THEN Except(w, "SyntaxError")
               ELSE /\ worker' = [worker EXCEPT ![w].pc = "walk", ![w].i = 1]
                    /\ UNCHANGED <<result, future, log>>
    /\ UNCHANGED <<catalog, function_modules, python_files, content, submitted,
                   queue, yielded, matches, ignored_files, report, redactor>>

\* the name of the call site the worker is at
CallName(w) == content[worker[w].file].calls[worker[w].i]

\* the worker appends a match for its call site (lines 141-151) and walks on
Matched(w, module) ==
    worker' = [worker EXCEPT
        ![w].pc = "walk",
        ![w].i = @ + 1,
        ![w].file_matches = Append(@, FunctionMatch(CallName(w), module,
                                       worker[w].file, worker[w].i))]

\* lines 136-139 and 169-172: the next call node; its name is looked up and
\* an empty module set is no match
Walk(w) ==
    /\ worker[w].pc = "walk"
    /\ IF worker[w].i > Len(content[worker[w].file].calls)
       THEN Return(w, worker[w].file_matches)
       ELSE /\ IF CallName(w) \notin DOMAIN function_modules
               THEN worker' = [worker EXCEPT ![w].i = @ + 1]
               ELSE IF function_modules[CallName(w)] = {}
                    THEN worker' = [worker EXCEPT ![w].i = @ + 1]
                    ELSE worker' = [worker EXCEPT ![w].pc = "len"]
            /\ UNCHANGED <<result, future>>
    /\ UNCHANGED <<catalog, function_modules, python_files, content, submitted,
                   queue, opened, log, yielded, matches, ignored_files, report, redactor>>

\* line 174: len(available_modules) == 1
CheckLen(w) ==
    /\ worker[w].pc = "len"
    /\ worker' = [worker EXCEPT ![w].pc =
                    IF Cardinality(function_modules[CallName(w)]) = 1
                    THEN "pop" ELSE "iter"]
    /\ UNCHANGED <<catalog, function_modules, python_files, content, submitted,
                   queue, future, result, opened, log, yielded, matches,
                   ignored_files, report, redactor>>

\* lines 175 and 185: available_modules.pop() on the catalog's own set;
\* set.pop() of an empty set raises KeyError
Pop(w) ==
    /\ worker[w].pc = "pop"
    /\ IF function_modules[CallName(w)] = {}
       THEN /\ Except(w, "KeyError")
            /\ UNCHANGED function_modules
       ELSE /\ \E m \in function_modules[CallName(w)] :
                 /\ function_modules' =
                        [function_modules EXCEPT ![CallName(w)] = @ \ {m}]
                 /\ Matched(w, m)
            /\ UNCHANGED <<result, future, log>>
    /\ UNCHANGED <<catalog, python_files, content, submitted, queue, opened,
                   yielded, matches, ignored_files, report, redactor>>

\* line 177: the comprehension creates the set's iterator, which notes the
\* size of the set
IterBegin(w) ==
    /\ worker[w].pc = "iter"
    /\ worker' = [worker EXCEPT ![w].pc = "sql",
                    ![w].used = Cardinality(function_modules[CallName(w)])]
    /\ UNCHANGED <<catalog, function_modules, python_files, content, submitted,
                   queue, future, result, opened, log, yielded, matches,
                   ignored_files, report, redactor>>

\* lines 177-183: the iterator is run to its end (RuntimeError if the set
\* changed size meanwhile) and the sql branch picks its module
IterEnd(w) ==
    /\ worker[w].pc = "sql"
    /\ LET available_modules == function_modules[CallName(w)] IN
       IF Cardinality(available_modules) # worker[w].used
       THEN Except(w, "RuntimeError")
       ELSE /\ IF SqlModules(available_modules) # {}
               THEN \E m \in SqlChoice(SqlModules(available_modules)) : Matched(w, m)
               ELSE worker' = [worker EXCEPT ![w].pc = "pop"]
            /\ UNCHANGED <<result, future, log>>
    /\ UNCHANGED <<catalog, function_modules, python_files, content, submitted,
                   queue, opened, yielded, matches, ignored_files, report, redactor>>

Worker(w) ==
    \/ Take(w)
    \/ Start(w)
    \/ Walk(w)
    \/ CheckLen(w)
    \/ Pop(w)
    \/ IterBegin(w)
    \/ IterEnd(w)

\* ------------------------------------------------------------------------
\* analyze_directory, the main thread
\* ------------------------------------------------------------------------
\* lines 210-213: executor.submit for the next file
Submit ==
    /\ submitted < Len(python_files)
    /\ submitted' = submitted + 1
    /\ queue' = Append(queue, python_files[submitted + 1])
    /\ future' = [future EXCEPT ![python_files[submitted + 1]] = "pending"]
    /\ UNCHANGED <<catalog, function_modules, python_files, content, result,
                   worker, opened, log, yielded, matches, ignored_files, report, redactor>>

\* lines 215-222: as_completed hands out a finished future
Collect ==
    /\ submitted = Len(python_files)
    /\ report = NoReport
    /\ \E f \in Files \ yielded :
         /\ future[f] = "done"
         /\ yielded' = yielded \cup {f}
         /\ IF _should_ignore_path(f)
            THEN /\ ignored_files' = Append(ignored_files, f)
                 /\ UNCHANGED matches
            ELSE /\ matches' = matches \o result[f]
                 /\ UNCHANGED ignored_files
    /\ UNCHANGED <<catalog, function_modules, python_files, content, submitted,
                   queue, future, result, worker, opened, log, report, redactor>>

\* the loop left after its first future
Exhausted_AfterFirst == yielded # {}

\* as_completed is exhausted: every submitted future was handed out
Exhausted == yielded = Files

\* the report with every discovered file counted as analyzed
BuildReport_CountsIgnored ==
    [total_files_analyzed |-> Len(python_files),
     total_matches |-> Len(matches),
     ignored_files |-> ignored_files,
     matches |-> matches]

\* lines 226-242
BuildReport ==
    [total_files_analyzed |-> Len(python_files) - Len(ignored_files),
     total_matches |-> Len(matches),
     ignored_files |-> ignored_files,
     matches |-> matches]

Report ==
    /\ submitted = Len(python_files)
    /\ report = NoReport
    /\ Exhausted
    /\ report' = BuildReport
    /\ UNCHANGED <<catalog, function_modules, python_files, content, submitted,
                   queue, future, result, worker, opened, log, yielded, matches,
                   ignored_files, redactor>>

Main == Submit \/ Collect \/ Report

Next == Main \/ \E w \in Workers : Worker(w)

Spec == Init /\ [][Next]_vars

\* The run over the whole of PairUniverse as catalog, for every listing and
\* every content of the files.
InitFull ==
    /\ \E files \in Listings :
          \E contents \in [Range(files) -> Contents] :
             Setup(PairUniverse, files, contents)
    /\ redactor = NoCall

\* The pool's threads and the main thread are operating-system threads: one
\* that can take a step eventually takes it.
FairSpec ==
    /\ InitFull
    /\ [][Next]_vars
    /\ WF_vars(Main)
    /\ \A w \in Workers : WF_vars(Worker(w))

\* ------------------------------------------------------------------------
\* analyze_file run on its own: no other thread between its steps
\* ------------------------------------------------------------------------
\* Python's None
None == ""

\* _determine_module run without interruption on the catalog fm: the
\* modules it may return, each with the catalog it leaves behind
Determine(fm, func_name) ==
    LET available_modules == fm[func_name]
        sql_modules == SqlModules(available_modules)
        Popped == {[module |-> m, fm |-> [fm EXCEPT ![func_name] = @ \ {m}]] :
                      m \in available_modules}
    IN  IF available_modules = {} THEN {[module |-> None, fm |-> fm]}
        ELSE IF Cardinality(available_modules) = 1 THEN Popped
        ELSE IF sql_modules # {}
             THEN {[module |-> m, fm |-> fm] : m \in SqlChoice(sql_modules)}
             ELSE Popped

\* the lists analyze_file may return for the call sites calls[i..] of
\* file_path, starting from the catalog fm with file_matches collected
RECURSIVE AnalyzeAlone(_, _, _, _, _)
AnalyzeAlone(file_path, calls, i, fm, file_matches) ==
    IF i > Len(calls) THEN {file_matches}
    ELSE IF calls[i] \notin DOMAIN fm
         THEN AnalyzeAlone(file_path, calls, i + 1, fm, file_matches)
         ELSE UNION { AnalyzeAlone(file_path, calls, i + 1, d.fm,
                          IF d.module = None THEN file_matches
                          ELSE Append(file_matches,
                                   FunctionMatch(calls[i], d.module, file_path, i))) :
                      d \in Determine(fm, calls[i]) }

\* ------------------------------------------------------------------------
\* Vocabulary of the properties
\* ------------------------------------------------------------------------
\* the ignore markers, as the specification lists them
IgnoreMarkers == {".venv", "site-packages", "__pycache__", "tests", "test_", "venv"}

HasIgnoreMarker(path) == \E marker \in IgnoreMarkers : Contains(marker, path)

\* the matches of list `ms` that lie in file f, in order
MatchesOf(ms, f) == SelectSeq(ms, LAMBDA x : x.file_path = f)

Count(seq, x) == Cardinality({i \in DOMAIN seq : seq[i] = x})

ReportBuilt == report # NoReport

\* a file the run analyzes to the end: not ignored, and it parses
Analyzed(f) == ~HasIgnoreMarker(f) /\ content[f].parses

\* every match the run holds anywhere: in a worker's file_matches, in a
\* future's result, in matches, in the report
AllMatches ==
    UNION {Range(worker[w].file_matches) : w \in Workers}
    \cup UNION {Range(result[f]) : f \in Files}
    \cup Range(matches)
    \cup (IF ReportBuilt THEN Range(report.matches) ELSE {})

\* ------------------------------------------------------------------------
\* C1
\* ------------------------------------------------------------------------
\* C1: in a file that is not ignored and parses, every call site whose name
\* has exactly one module m in the catalog as constructed yields a match
\* with module m -- the second and later call sites of the name included.
C1_UniqueModuleAlwaysMatched ==
    \A f \in Files :
        (future[f] = "done" /\ Analyzed(f)) =>
            \A i \in DOMAIN content[f].calls :
                LET name == content[f].calls[i] IN
                (name \in DOMAIN catalog /\ Cardinality(catalog[name]) = 1) =>
                    \E m \in catalog[name] :
                        FunctionMatch(name, m, f, i) \in Range(result[f])

\* ------------------------------------------------------------------------
\* C2
\* ------------------------------------------------------------------------
\* C2: the catalog is read-only: in every reachable state every name's
\* module set is the one the constructor built.
C2_CatalogReadOnly == function_modules = catalog

\* ------------------------------------------------------------------------
\* C3
\* ------------------------------------------------------------------------
\* C3: every match's module is one of the catalog's candidates for the
\* match's name, and a candidate set found empty during resolution gives no
\* match, not an error (set.pop()'s KeyError is that error).
C3_ModuleIsCandidateAndEmptyIsNoError ==
    /\ \A x \in AllMatches :
          x.name \in DOMAIN catalog /\ x.module \in catalog[x.name]
    /\ \A f \in Files : <<f, "KeyError">> \notin log

\* ------------------------------------------------------------------------
\* C5
\* ------------------------------------------------------------------------
\* C5: a discovered file whose path holds an ignore marker is never opened,
\* yields no match anywhere, and stands in ignored_files exactly once from
\* the moment as_completed handed it out (so exactly once in the report);
\* a file without a marker never stands in ignored_files.
C5_IgnoredNeverAnalyzed ==
    /\ \A f \in Files :
          HasIgnoreMarker(f) =>
             /\ f \notin opened
             /\ \A x \in AllMatches : x.file_path # f
             /\ Count(ignored_files, f) = (IF f \in yielded THEN 1 ELSE 0)
             /\ ReportBuilt => Count(report.ignored_files, f) = 1
    /\ \A i \in DOMAIN ignored_files : HasIgnoreMarker(ignored_files[i])

\* an ignored file with a catalog-matching call, and a sibling with a
\* match, have reached the report
C5_Witness ==
    /\ ReportBuilt
    /\ \E f \in Files :
          /\ HasIgnoreMarker(f)
          /\ \E i \in DOMAIN content[f].calls : content[f].calls[i] \in DOMAIN catalog
          /\ Count(report.ignored_files, f) = 1
    /\ report.total_matches > 0

\* ------------------------------------------------------------------------
\* C6
\* ------------------------------------------------------------------------
\* what C6 says of a file f that does not parse
C6_FailureIsolated(f) ==
    /\ f \in opened => /\ future[f] = "done"
                       /\ result[f] = <<>>
                       /\ <<f, "SyntaxError">> \in log
    /\ report = NoReport => ENABLED Next
    /\ ReportBuilt =>
          /\ MatchesOf(report.matches, f) = <<>>
          /\ f \notin Range(report.ignored_files)
          /\ report.total_files_analyzed =
                Cardinality(Files \ Range(report.ignored_files))
          /\ \A g \in Files \ {f} :
                ~HasIgnoreMarker(g) => MatchesOf(report.matches, g) = result[g]

\* C6 as stated: every file that cannot be read, decoded or parsed yields no
\* match, is not in ignored_files, counts toward total_files_analyzed, and
\* neither stops the run before the report nor keeps a sibling's matches
\* out of it.
C6_AnyUnparsableFile ==
    \A f \in Files : ~content[f].parses => C6_FailureIsolated(f)

\* C6 amended: the same of every such file whose path holds no ignore marker
\* (one whose path holds a marker is entered into ignored_files and is not
\* counted, like any ignored file).
C6_UnparsableNonIgnoredFile ==
    \A f \in Files :
        (~content[f].parses /\ ~HasIgnoreMarker(f)) => C6_FailureIsolated(f)

\* the report holds a sibling's match next to a file that failed to parse
C6_Witness ==
    /\ ReportBuilt
    /\ \E f \in Files :
          /\ ~content[f].parses /\ ~HasIgnoreMarker(f)
          /\ <<f, "SyntaxError">> \in log
          /\ \E g \in Files \ {f} : MatchesOf(report.matches, g) # <<>>

\* ------------------------------------------------------------------------
\* C7
\* ------------------------------------------------------------------------
\* no task is pending or running, and every non-ignored file's result is in
\* the report
C7_AllJoined ==
    /\ queue = <<>>
    /\ \A f \in Files : future[f] = "done"
    /\ \A w \in Workers : worker[w].pc = "idle"
    /\ \A f \in Files :
          ~HasIgnoreMarker(f) => MatchesOf(report.matches, f) = result[f]

\* C7: whenever the report exists every submitted task has completed and
\* every non-ignored file's result list is merged into the report's matches;
\* and, the threads being scheduled fairly, the report is eventually built.
C7_BarrierThenReport ==
    /\ [](ReportBuilt => C7_AllJoined)
    /\ <>ReportBuilt

\* the report is built over two files that both contributed matches
C7_Witness ==
    /\ ReportBuilt
    /\ Len(python_files) = 2
    /\ \A f \in Files : MatchesOf(report.matches, f) # <<>>

\* ------------------------------------------------------------------------
\* C8
\* ------------------------------------------------------------------------
\* C8: in the report total_matches is the length of matches, and
\* total_files_analyzed is the number of discovered files minus the number
\* of entries of ignored_files.
C8_ReportCounts ==
    ReportBuilt =>
        /\ report.total_matches = Len(report.matches)
        /\ report.total_files_analyzed =
              Len(python_files) - Len(report.ignored_files)

\* a report with a match and an ignored file
C8_Witness ==
    /\ ReportBuilt
    /\ report.total_matches > 0
    /\ report.ignored_files # <<>>
    /\ report.total_files_analyzed = 1

\* ------------------------------------------------------------------------
\* C10
\* ------------------------------------------------------------------------
\* C10: what a file that parses contributes does not depend on the other
\* files or workers: its result is one analyze_file returns for it when run
\* on its own against the catalog as constructed.
C10_ResultIndependentOfOthers ==
    \A f \in Files :
        (future[f] = "done" /\ Analyzed(f)) =>
            result[f] \in AnalyzeAlone(f, content[f].calls, 1, catalog, <<>>)

\* ------------------------------------------------------------------------
\* The disambiguator on its own inputs
\* ------------------------------------------------------------------------
\* modules the functions file may give one name
ModuleUniverse ==
    {"a.sql.functions", "pkg.sql.functions", "c.sql.dataframe", "d.sql.column",
     "e.sqlite", "b.other"}

\* The run of analyze_directory over two files that call one name
\* ("select") at every call site, for every set of modules the catalog may
\* give that name: _determine_module is called again and again, by both
\* workers, on the same candidate set.
InitResolve ==
    /\ \E S \in SUBSET ModuleUniverse :
          Setup({<<"select", m>> : m \in S},
                <<"a.py", "b.py">>,
                [f \in {"a.py", "b.py"} |->
                    [parses |-> TRUE, calls |-> [i \in 1..MaxCalls |-> "select"]]])
    /\ redactor = NoCall

ResolveSpec == InitResolve /\ [][Next]_vars

\* ------------------------------------------------------------------------
\* C4
\* ------------------------------------------------------------------------
\* the candidates the priority rule of C4 allows: those holding the first of
\* "sql.functions", "sql.dataframe", "sql.column" that any sql-holding
\* candidate holds; every sql-holding candidate if none holds any
C4_Allowed(candidates) ==
    LET sql == {m \in candidates : Contains("sql", m)}
        fn == {m \in sql : Contains("sql.functions", m)}
        df == {m \in sql : Contains("sql.dataframe", m)}
        col == {m \in sql : Contains("sql.column", m)}
    IN  IF fn # {} THEN fn ELSE IF df # {} THEN df ELSE IF col # {} THEN col ELSE sql

\* the candidate sets C4 is about
C4_Ambiguous(candidates) ==
    /\ Cardinality(candidates) >= 2
    /\ \E m \in candidates : Contains("sql", m)

\* C4: for two or more candidates of which one holds "sql", every call
\* returns a module, one that holds "sql" and that the priority rule allows
\* (a worker that has walked past such a call site holds its match); so
\* where the rule allows one candidate only, every call gets that candidate,
\* whatever the set's iteration order and however often the call is
\* repeated.
C4_SqlPreferred ==
    /\ \A x \in AllMatches :
          C4_Ambiguous(catalog[x.name]) =>
             /\ Contains("sql", x.module)
             /\ x.module \in C4_Allowed(catalog[x.name])
    /\ \A w \in Workers :
          worker[w].pc # "idle" =>
             \A j \in 1..(worker[w].i - 1) :
                LET name == content[worker[w].file].calls[j] IN
                (name \in DOMAIN catalog /\ C4_Ambiguous(catalog[name])) =>
                   \E m \in C4_Allowed(catalog[name]) :
                      FunctionMatch(name, m, worker[w].file, j)
                         \in Range(worker[w].file_matches)

\* the specification's example: {"a.sql.functions", "b.other"} resolved to
\* "a.sql.functions" at every call site of both files
C4_Witness ==
    /\ "select" \in DOMAIN catalog
    /\ catalog["select"] = {"a.sql.functions", "b.other"}
    /\ ReportBuilt
    /\ Len(report.matches) = 2 * MaxCalls
    /\ \A k \in DOMAIN report.matches : report.matches[k].module = "a.sql.functions"

\* ------------------------------------------------------------------------
\* _get_context
\* ------------------------------------------------------------------------
MaxContent == 6     \* characters of the file text handed to _get_context
MaxLineNumber == 2  \* largest line number asked for

DQ == "\""
SQ == "'"
Placeholder == "<redacted>"

\* the i-th character of s
Char(s, i) == SubSeq(s, i, i)

\* s from its i-th character on
From(s, i) == SubSeq(s, i, Len(s))

\* the first position >= from at which character c stands in s; 0 if none
Find(s, c, from) ==
    LET I == {i \in from..Len(s) : Char(s, i) = c}
    IN  IF I = {} THEN 0 ELSE CHOOSE i \in I : \A j \in I : i <= j

\* str.splitlines(), for the line break "\n"
RECURSIVE splitlines(_)
splitlines(s) ==
    IF s = "" THEN <<>>
    ELSE LET i == Find(s, "\n", 1)
         IN  IF i = 0 THEN <<s>>
             ELSE <<SubSeq(s, 1, i - 1)>> \o splitlines(From(s, i + 1))

Whitespace == {" ", "\n"}

\* str.strip()
RECURSIVE strip(_)
strip(s) ==
    IF s = "" THEN s
    ELSE IF Char(s, 1) \in Whitespace THEN strip(From(s, 2))
    ELSE IF Char(s, Len(s)) \in Whitespace THEN strip(SubSeq(s, 1, Len(s) - 1))
    ELSE s

\* re.sub(q + '[^' + q + ']*' + q, q + '<redacted>' + q, line), lines 111-112:
\* leftmost matches, left to right, none overlapping
RECURSIVE SubQuoted(_, _)
SubQuoted(line, q) ==
    LET i == Find(line, q, 1)
        j == IF i = 0 THEN 0 ELSE Find(line, q, i + 1)
    IN  IF j = 0 THEN line
        ELSE SubSeq(line, 1, i - 1) \o q \o Placeholder \o q
                \o SubQuoted(From(line, j + 1), q)

\* re.sub(r'\([^)]+\)', '(<redacted>)', line), line 113: "(" up to the next
\* ")", with at least one character between them
RECURSIVE SubParens(_)
SubParens(line) ==
    LET i == Find(line, "(", 1)
        j == IF i = 0 THEN 0 ELSE Find(line, ")", i + 1)
    IN  IF j = 0 THEN line
        ELSE IF j = i + 1 THEN SubSeq(line, 1, j) \o SubParens(From(line, j + 1))
        ELSE SubSeq(line, 1, i - 1) \o "(" \o Placeholder \o ")"
                \o SubParens(From(line, j + 1))

_get_context(content_, line_number) ==
    LET lines == splitlines(content_)
    IN  IF 0 <= line_number - 1 /\ line_number - 1 < Len(lines)
        THEN SubParens(SubQuoted(SubQuoted(strip(lines[line_number]), DQ), SQ))
        ELSE ""

\* the characters of the file text: the two quotes, the parentheses, a
\* letter, a blank and the line break
Alphabet == {DQ, SQ, "(", ")", "s", " ", "\n"}

RECURSIVE Texts(_)
Texts(n) ==
    IF n = 0 THEN {""}
    ELSE LET P == Texts(n - 1)
         IN  P \cup {t \o c : t \in {u \in P : Len(u) = n - 1}, c \in Alphabet}

InitRedact ==
    /\ Setup({}, <<>>, <<>>)
    /\ \E t \in Texts(MaxContent), n \in (-1)..MaxLineNumber :
          redactor = [content |-> t, line_number |-> n, returned |-> <<>>]

\* the call: _get_context returns
GetContext ==
    /\ redactor.returned = <<>>
    /\ redactor' = [redactor EXCEPT
                      !.returned = <<_get_context(redactor.content, redactor.line_number)>>]
    /\ UNCHANGED <<catalog, function_modules, python_files, content, submitted,
                   queue, future, result, worker, opened, log, yielded, matches,
                   ignored_files, report>>

RedactSpec == InitRedact /\ [][GetContext]_vars

\* ------------------------------------------------------------------------
\* C9
\* ------------------------------------------------------------------------
\* the first position >= from at which q stands three times in a row; 0 if none
C9_FindTriple(line, q, from) ==
    LET I == {i \in from..(Len(line) - 2) : SubSeq(line, i, i + 2) = q \o q \o q}
    IN  IF I = {} THEN 0 ELSE CHOOSE i \in I : \A j \in I : i <= j

\* Python's reading of the string literals of one line, from position i on
\* (outside any literal): the positions inside a literal's quotes, and
\* whether every literal is closed on the line
RECURSIVE C9_Literals(_, _)
C9_Literals(line, i) ==
    IF i > Len(line) THEN [closed |-> TRUE, interior |-> {}]
    ELSE LET q == Char(line, i) IN
         IF q \notin {DQ, SQ} THEN C9_Literals(line, i + 1)
         ELSE IF i + 2 <= Len(line) /\ SubSeq(line, i, i + 2) = q \o q \o q
              THEN LET k == C9_FindTriple(line, q, i + 3) IN
                   IF k = 0 THEN [closed |-> FALSE, interior |-> {}]
                   ELSE LET rest == C9_Literals(line, k + 3) IN
                        [closed |-> rest.closed,
                         interior |-> (i + 3)..(k - 1) \cup rest.interior]
              ELSE LET k == Find(line, q, i + 1) IN
                   IF k = 0 THEN [closed |-> FALSE, interior |-> {}]
                   ELSE LET rest == C9_Literals(line, k + 1) IN
                        [closed |-> rest.closed,
                         interior |-> (i + 1)..(k - 1) \cup rest.interior]

\* the letter "s" stands on the line only inside string literals, all of
\* them closed on the line: every "s" is interior text of a literal
C9_SecretsOnlyInLiterals(line) ==
    LET lit == C9_Literals(line, 1)
    IN  /\ lit.closed
        /\ \A i \in 1..Len(line) : Char(line, i) = "s" => i \in lit.interior

\* C9: for a line number in range the returned context holds no interior
\* text of a string literal of that line (no "s", where every "s" of the
\* line is such text); for a line number out of range it is "".
C9_NoLiteralTextInContext ==
    redactor.returned # <<>> =>
        LET lines == splitlines(redactor.content)
            n == redactor.line_number
            context == redactor.returned[1]
        IN  IF 1 <= n /\ n <= Len(lines)
            THEN C9_SecretsOnlyInLiterals(lines[n]) => ~Contains("s", context)
            ELSE context = ""

====
